---- MODULE Spec2Model ----
(***************************************************************************)
(* Retrieval core of AI-second-brain: the Chroma-backed VectorStoreManager *)
(* (src/src/vector_store.py) and the RAGEngine with its conversation       *)
(* memory (src/rag_engine.py), driven by the Streamlit chat handler        *)
(* (src/chat_interface.py), and the EmbeddingManager singleton with its   *)
(* lazily loaded model (src/embeddings.py).                                *)
(*                                                                         *)
(* Texts are sequences of tokens.  Scores are hundredths (0.5 is 50).      *)
(* An optional value (Python None or a value) is a sequence of length 0    *)
(* or 1.                                                                   *)
(***************************************************************************)
EXTENDS Integers, Sequences, FiniteSets, TLC

VARIABLES
    memoryWindow,          \* settings.MEMORY_WINDOW of this process
    rag_engine,            \* module global _rag_engine: TRUE once the RAGEngine exists
    conversation_history,  \* RAGEngine.conversation_history of that one engine
    collection,            \* entries of the persisted Chroma collection, oldest first
    collection_handle,     \* VectorStoreManager._collection: "live" or "deleted"
    index,                 \* VectorStoreManager._index: "None", "index", or
                           \* "stale" (an index over a collection since deleted)
    N,                     \* successful use_memory queries since the memory was empty
    clean,                 \* no other call has written the memory since it was empty
    last,                  \* the call that has just returned, with what it returned
    embedding_manager,     \* module global _embedding_manager: 0 (None) or a manager
    embed_model,           \* per manager, its _embed_model: 0 (None) or a model
    loads,                 \* FastEmbedEmbedding objects constructed so far
    pc,                    \* per thread, where it stands in the call it is making
    local                  \* per thread, the local values of that call

vars == <<memoryWindow, rag_engine, conversation_history, collection,
          collection_handle, index, N, clean, last,
          embedding_manager, embed_model, loads, pc, local>>

embedder_vars == <<embedding_manager, embed_model, loads>>
thread_vars == <<pc, local>>

store_vars == <<collection, collection_handle, index>>
engine_vars == <<memoryWindow, rag_engine, conversation_history, N, clean>>

-----------------------------------------------------------------------------
(* Bounds of the model *)

MaxWindow == 2
MaxQueries == 2
MaxEntries == 3
MaxBatch == 2
MaxTopK == 2
MaxTexts == 2
MaxDocNames == 2
MaxUploads == 2
MaxChunkTokens == 2
MaxOverlapTokens == 1

(* Program constants *)

MEMORY_WINDOW == 3
TOP_K_RETRIEVAL == 5
SIMILARITY_THRESHOLD == 50
DEFAULT_SCORE == 100
EMBEDDING_DIM == 384
COMPARE_TOP_K == 20
COMPARE_CHUNKS == 5

-----------------------------------------------------------------------------
(* Inputs *)

Sessions == {"s1", "s2"}
Questions == {<<"q1">>, <<"q2">>}

Chunks == { [text |-> "t1", metadata |-> [source |-> "a.txt"]],
            [text |-> "t2", metadata |-> [source |-> "a.txt"]],
            [text |-> "t3", metadata |-> [source |-> "b.txt"]] }

\* Cosine similarity of a query and a chunk text, as the embedder and the
\* collection compute it: a fixed function of the two texts.
Similarity(query, text) ==
    IF query = <<"q1">>
    THEN CASE text = "t1" -> 80 [] text = "t2" -> 60 [] OTHER -> 30
    ELSE CASE text = "t1" -> 50 [] text = "t2" -> 20 [] OTHER -> 50

RECURSIVE SeqsUpTo(_, _)
SeqsUpTo(S, n) ==
    IF n = 0 THEN {<<>>}
    ELSE LET shorter == SeqsUpTo(S, n - 1)
         IN  shorter \cup {Append(s, x) : s \in shorter, x \in S}

Batches == SeqsUpTo(Chunks, MaxBatch)

TopKs == {<<>>} \cup {<<k>> : k \in 0..MaxTopK}
Filters == {<<>>, << [source |-> "a.txt"] >>}

\* Filenames a comparison can name: those of the chunks, and one of no chunk.
DocNames == {"a.txt", "b.txt", "c.txt"}
DocNameLists == SeqsUpTo(DocNames, MaxDocNames)
Aspects == {"findings", "colours"}

\* Streamlit runs each browser session's script in a thread of its own.
Threads == {"T1", "T2"}

Texts == {<<>>, <<" ", "\n">>, <<"hello">>, <<" ", "world">>}
TextLists == SeqsUpTo(Texts, MaxTexts)

\* What can go wrong inside one search call: nothing; _load_index or the
\* retriever raising; or the retriever attaching to the node of one rank, in
\* place of a number, no score, NaN, or a value float() rejects.
NoFault == [fault |-> "none", rank |-> 0, kind |-> "num"]
SearchFaults(maxRank) ==
    {NoFault}
    \cup {[fault |-> f, rank |-> 0, kind |-> "num"] : f \in {"load", "retrieve"}}
    \cup {[fault |-> "score", rank |-> r, kind |-> k] :
             r \in 1..maxRank, k \in {"none", "nan", "str"}}

\* The fault as the record of a call names it.
FaultName(fault) ==
    IF fault.fault # "score" THEN fault.fault
    ELSE CASE fault.kind = "nan" -> "score_nan"
           [] fault.kind = "str" -> "score_str"
           [] OTHER -> "score_none"

-----------------------------------------------------------------------------
(* Floats *)

Num(v) == [kind |-> "num", val |-> v]

\* Python's a >= b on floats: False whenever a is NaN.
FloatGe(a, v) == a.kind = "num" /\ a.val >= v

Min(a, b) == IF a <= b THEN a ELSE b

-----------------------------------------------------------------------------
(* VectorStoreManager.search *)

\* The default taken with 'if not top_k', which also replaces 0.
mutant_DefaultTopK(top_k) ==
    IF top_k = <<>> \/ top_k = <<0>> THEN TOP_K_RETRIEVAL ELSE top_k[1]

\* if top_k is None: top_k = settings.TOP_K_RETRIEVAL
DefaultTopK(top_k) ==
    IF top_k = <<>> THEN TOP_K_RETRIEVAL ELSE top_k[1]

\* The positions of the collection, best similarity first, ties oldest first.
RECURSIVE Ranked(_, _, _)
Ranked(entries, query, S) ==
    IF S = {} THEN <<>>
    ELSE LET best == CHOOSE i \in S : \A j \in S :
                        \/ Similarity(query, entries[i].text)
                             > Similarity(query, entries[j].text)
                        \/ /\ Similarity(query, entries[i].text)
                                = Similarity(query, entries[j].text)
                           /\ i <= j
         IN  <<best>> \o Ranked(entries, query, S \ {best})

\* A retriever that sees only the entry added last.
mutant_Retrieve_newest_only(entries, query, k, fault) ==
    LET n == Min(k, Min(1, Len(entries)))
    IN  [r \in 1..n |->
            [text |-> entries[Len(entries)].text,
             metadata |-> entries[Len(entries)].metadata,
             score |-> IF fault.rank = r
                       THEN [kind |-> fault.kind, val |-> 0]
                       ELSE Num(Similarity(query, entries[Len(entries)].text))]]

\* retriever.retrieve(query) with similarity_top_k = k: the k nearest entries,
\* most similar first, each with its score attribute.
Retrieve(entries, query, k, fault) ==
    LET order == Ranked(entries, query, DOMAIN entries)
        n == Min(k, Len(order))
    IN  [r \in 1..n |->
            [text |-> entries[order[r]].text,
             metadata |-> entries[order[r]].metadata,
             score |-> IF fault.rank = r
                       THEN [kind |-> fault.kind, val |-> 0]
                       ELSE Num(Similarity(query, entries[order[r]].text))]]

\* score = getattr(node, 'score', None); if score is None: score = 1.0;
\* 'score': float(score)
FormatResults(nodes) ==
    [r \in 1..Len(nodes) |->
        [text |-> nodes[r].text,
         metadata |-> nodes[r].metadata,
         score |-> IF nodes[r].score.kind = "none"
                   THEN Num(DEFAULT_SCORE)
                   ELSE nodes[r].score]]

\* search without the threshold filter.
mutant_FilterByThreshold(results) == results

\* if r['score'] >= settings.SIMILARITY_THRESHOLD: filtered_results.append(r)
RECURSIVE FilterByThreshold(_)
FilterByThreshold(results) ==
    IF results = <<>> THEN <<>>
    ELSE LET rest == FilterByThreshold(Tail(results))
         IN  IF FloatGe(Head(results).score, SIMILARITY_THRESHOLD)
             THEN <<Head(results)>> \o rest
             ELSE rest

\* A lazy load that rebuilds the index from the stored documents, adding them
\* to the collection again.
mutant_load_index(fault) ==
    IF collection_handle = "deleted" \/ fault.fault = "load"
    THEN [index |-> "None", entries |-> collection]
    ELSE IF Len(collection) = 0
    THEN [index |-> "None", entries |-> collection]
    ELSE [index |-> "index", entries |-> collection \o collection]

\* A lazy load that never finds the persisted entries.
mutant_load_index_never(fault) ==
    [index |-> "None", entries |-> collection]

\* VectorStoreManager._load_index: the _index and the collection entries it
\* leaves.  Every exception is logged and swallowed.
load_index(fault) ==
    IF collection_handle = "deleted" \/ fault.fault = "load"
    THEN [index |-> "None", entries |-> collection]
    ELSE IF Len(collection) = 0
    THEN [index |-> "None", entries |-> collection]
    ELSE [index |-> "index", entries |-> collection]

\* search without the second "if self._index is None" check: the retriever is
\* asked of None.
mutant_search_no_unbuilt_branch(query, top_k, filters, fault) ==
    LET k == DefaultTopK(top_k)
        loaded == IF index = "None" THEN load_index(fault)
                  ELSE [index |-> index, entries |-> collection]
        nodes == Retrieve(loaded.entries, query, k, fault)
        Raise(msg) == [raises |-> TRUE,
                       exc |-> <<"Failed to search documents: ", msg>>,
                       results |-> <<>>, index |-> loaded.index,
                       entries |-> loaded.entries]
    IN  IF loaded.index = "None"
        THEN Raise("'NoneType' object has no attribute 'as_retriever'")
        ELSE IF collection_handle = "deleted" \/ loaded.index = "stale"
        THEN Raise("collection does not exist")
        ELSE IF fault.fault = "retrieve"
        THEN Raise("retrieve failed")
        ELSE IF \E r \in DOMAIN nodes : nodes[r].score.kind = "str"
        THEN Raise("could not convert string to float")
        ELSE [raises |-> FALSE, exc |-> <<>>,
              results |-> FilterByThreshold(FormatResults(nodes)),
              index |-> loaded.index, entries |-> loaded.entries]

\* VectorStoreManager.search(query, top_k, filters): what it returns or raises,
\* and the _index and the collection entries it leaves.  filters is accepted
\* and never used.
search(query, top_k, filters, fault) ==
    LET k == DefaultTopK(top_k)
        loaded == IF index = "None" THEN load_index(fault)
                  ELSE [index |-> index, entries |-> collection]
        nodes == Retrieve(loaded.entries, query, k, fault)
        Raise(msg) == [raises |-> TRUE,
                       exc |-> <<"Failed to search documents: ", msg>>,
                       results |-> <<>>, index |-> loaded.index,
                       entries |-> loaded.entries]
    IN  IF loaded.index = "None"
        THEN \* logger.warning("No documents indexed yet"); return []
             [raises |-> FALSE, exc |-> <<>>, results |-> <<>>,
              index |-> loaded.index, entries |-> loaded.entries]
        ELSE IF collection_handle = "deleted" \/ loaded.index = "stale"
        THEN Raise("collection does not exist")
        ELSE IF fault.fault = "retrieve"
        THEN Raise("retrieve failed")
        ELSE IF \E r \in DOMAIN nodes : nodes[r].score.kind = "str"
        THEN Raise("could not convert string to float")
        ELSE [raises |-> FALSE, exc |-> <<>>,
              results |-> FilterByThreshold(FormatResults(nodes)),
              index |-> loaded.index, entries |-> loaded.entries]

-----------------------------------------------------------------------------
(* The record of the last call *)

NoCall ==
    [op |-> "none", sid |-> "", question |-> <<>>, use_memory |-> FALSE,
     top_k |-> <<>>, filters |-> <<>>, raises |-> FALSE, exc |-> <<>>,
     retrieved |-> <<>>, results |-> <<>>, memory_block |-> <<>>,
     llm_calls |-> 0, answer |-> <<>>, sources |-> <<>>, query |-> <<>>,
     returned |-> FALSE, fault |-> "", loaded |-> FALSE, documents |-> <<>>,
     count |-> <<>>, texts |-> <<>>, embeddings |-> <<>>, model |-> 0,
     doc_names |-> <<>>, aspect |-> "", error |-> <<>>, found_docs |-> <<>>,
     compared |-> <<>>, comparison |-> <<>>, uploaded_files |-> <<>>,
     all_chunks |-> <<>>, errors |-> <<>>, trace |-> <<>>, notice |-> ""]

-----------------------------------------------------------------------------
(* VectorStoreManager *)

\* VectorStoreManager.search as a call of its own.  A fault is drawn only
\* where the step it breaks is taken: _load_index runs when _index is None,
\* and a score anomaly sits on a node the retriever can return.
Search(query, top_k, filters, fault) ==
    /\ fault.fault = "load" => index = "None"
    /\ fault.rank <= Min(DefaultTopK(top_k), Len(collection))
    /\ \E out \in {search(query, top_k, filters, fault)} :
        /\ index' = out.index
        /\ collection' = out.entries
        /\ last' = [NoCall EXCEPT !.op = "search", !.question = query,
                                  !.top_k = top_k, !.filters = filters,
                                  !.raises = out.raises, !.exc = out.exc,
                                  !.returned = ~out.raises,
                                  !.results = out.results,
                                  !.fault = FaultName(fault),
                                  !.loaded = (index = "None"
                                              /\ out.index = "index")]
        /\ UNCHANGED collection_handle
        /\ UNCHANGED engine_vars
        /\ UNCHANGED <<embedder_vars, thread_vars>>

\* index_documents without the "if not documents" check: an empty batch
\* builds a new index and reports success.
mutant_index_documents_no_empty_check(documents, fault) ==
    IF collection_handle = "deleted" \/ fault
    THEN [raises |-> TRUE, returned |-> FALSE,
          exc |-> <<"Failed to index documents: ">>,
          entries |-> collection, index |-> index]
    ELSE [raises |-> FALSE, returned |-> TRUE, exc |-> <<>>,
          entries |-> collection \o documents, index |-> "index"]

\* index_documents that first drops the stored entries of the sources it is
\* given (an upsert by filename).
mutant_index_documents_replaces_source(documents, fault) ==
    IF documents = <<>>
    THEN [raises |-> FALSE, returned |-> FALSE, exc |-> <<>>,
          entries |-> collection, index |-> index]
    ELSE IF collection_handle = "deleted" \/ fault
    THEN [raises |-> TRUE, returned |-> FALSE,
          exc |-> <<"Failed to index documents: ">>,
          entries |-> collection, index |-> index]
    ELSE [raises |-> FALSE, returned |-> TRUE, exc |-> <<>>,
          entries |-> SelectSeq(collection,
                          LAMBDA e : \A d \in DOMAIN documents :
                              documents[d].metadata.source # e.metadata.source)
                      \o documents,
          index |-> "index"]

\* VectorStoreManager.index_documents(documents): what it returns (True,
\* False) or raises, and the collection entries and the _index it leaves.
\* from_documents embeds the documents, adds them to the collection and
\* yields the new index; a failure in it leaves the store as it was.
index_documents(documents, fault) ==
    IF documents = <<>>
    THEN [raises |-> FALSE, returned |-> FALSE, exc |-> <<>>,
          entries |-> collection, index |-> index]
    ELSE IF collection_handle = "deleted" \/ fault
    THEN [raises |-> TRUE, returned |-> FALSE,
          exc |-> <<"Failed to index documents: ">>,
          entries |-> collection, index |-> index]
    ELSE [raises |-> FALSE, returned |-> TRUE, exc |-> <<>>,
          entries |-> collection \o documents, index |-> "index"]

\* One call of VectorStoreManager.index_documents; from_documents, the step
\* the fault breaks, runs only for a non-empty batch.
IndexDocuments(documents, fault) ==
    /\ Len(collection) + Len(documents) <= MaxEntries
    /\ fault => documents # <<>>
    /\ \E out \in {index_documents(documents, fault)} :
        /\ collection' = out.entries
        /\ index' = out.index
        /\ last' = [NoCall EXCEPT !.op = "index_documents",
                                  !.documents = documents,
                                  !.raises = out.raises, !.exc = out.exc,
                                  !.returned = out.returned,
                                  !.fault = IF fault THEN "add" ELSE "none"]
    /\ UNCHANGED collection_handle
    /\ UNCHANGED engine_vars
    /\ UNCHANGED <<embedder_vars, thread_vars>>

\* VectorStoreManager.clear_all(): delete_collection, get_or_create_collection,
\* _index = None; an exception at either call is logged and returns False.
\* delete_collection raises when the collection does not exist, so no
\* further fault is drawn there.
ClearAll(fault) ==
    /\ collection_handle = "deleted" => fault = "none"
    /\ IF collection_handle = "deleted"
       THEN /\ last' = [NoCall EXCEPT !.op = "clear_all", !.fault = fault,
                            !.exc = <<"Collection documents does not exist.">>]
            /\ UNCHANGED store_vars
       ELSE IF fault = "delete"
       THEN /\ last' = [NoCall EXCEPT !.op = "clear_all", !.fault = fault,
                            !.exc = <<"delete_collection failed">>]
            /\ UNCHANGED store_vars
       ELSE IF fault = "create"
       THEN /\ collection' = <<>>
            /\ collection_handle' = "deleted"
            /\ last' = [NoCall EXCEPT !.op = "clear_all", !.fault = fault,
                            !.exc = <<"get_or_create_collection failed">>]
            /\ UNCHANGED index
       ELSE /\ collection' = <<>>
            /\ collection_handle' = "live"
            /\ index' = "None"
            /\ last' = [NoCall EXCEPT !.op = "clear_all", !.fault = fault,
                                      !.returned = TRUE]
    /\ UNCHANGED engine_vars
    /\ UNCHANGED <<embedder_vars, thread_vars>>

\* VectorStoreManager.get_document_count(): self._collection.count(), which
\* raises on the handle of a deleted collection.
GetDocumentCount ==
    /\ last' = IF collection_handle = "deleted"
               THEN [NoCall EXCEPT !.op = "get_document_count",
                                   !.raises = TRUE,
                                   !.exc = <<"Collection documents does not exist.">>]
               ELSE [NoCall EXCEPT !.op = "get_document_count",
                                   !.returned = TRUE,
                                   !.count = <<Len(collection)>>]
    /\ UNCHANGED store_vars
    /\ UNCHANGED engine_vars
    /\ UNCHANGED <<embedder_vars, thread_vars>>

\* The locals of a thread that is making no call.
NoLocal == [mgr |-> 0, new |-> 0, model |-> 0, documents |-> <<>>]

\* A new process on the same data directory: _initialize_chroma gets or creates
\* the collection, _index is None, and the engine singleton is gone.
Restart ==
    /\ collection_handle' = "live"
    /\ index' = "None"
    /\ rag_engine' = FALSE
    /\ conversation_history' = <<>>
    /\ N' = 0
    /\ clean' = TRUE
    /\ last' = [NoCall EXCEPT !.op = "restart"]
    /\ embedding_manager' = 0
    /\ embed_model' = <<>>
    /\ loads' = 0
    /\ pc' = [t \in Threads |-> "idle"]
    /\ local' = [t \in Threads |-> NoLocal]
    /\ UNCHANGED <<collection, memoryWindow>>

-----------------------------------------------------------------------------
(* RAGEngine *)

\* handle_user_input and ask_question, the callers of query, pass no top_k.
QueryTopKs == {<<>>}

\* Where one query call can fail: inside search (SearchFaults), or with an
\* exception raised by one of its own steps ("content": the LLM call returns a
\* message whose content is None).
QueryFaults ==
    SearchFaults(0)
    \cup {[fault |-> f, rank |-> 0, kind |-> "num"] :
             f \in {"context", "llm", "content", "sources"}}

CannedAnswer ==
    <<"I couldn't find any relevant information in your documents to answer this question.">>

\* f"Error processing query: {str(e)}"
ErrorAnswer(exc) == <<"Error processing query: ">> \o exc

Whitespace == {" ", "\n"}

\* str.strip()
RECURSIVE Strip(_)
Strip(text) ==
    IF text = <<>> THEN <<>>
    ELSE IF Head(text) \in Whitespace THEN Strip(Tail(text))
    ELSE IF text[Len(text)] \in Whitespace
    THEN Strip(SubSeq(text, 1, Len(text) - 1))
    ELSE text

\* The external LLM, a function from the prompt to message.content.
Complete(prompt) ==
    IF prompt.question = <<"q1">> THEN <<" ", "a1", "\n">> ELSE <<"a2">>

\* Python's lst[-m:] for m >= 0: the last m items, and the whole list when
\* m = 0 (-0 is 0) or m >= len(lst).
PySuffix(lst, m) ==
    IF m = 0 \/ m >= Len(lst) THEN lst
    ELSE SubSeq(lst, Len(lst) - m + 1, Len(lst))

\* ChatMessage(role, content); sid names the session whose call created it.
ChatMessage(role, content, sid) ==
    [role |-> role, content |-> content, sid |-> sid]

\* RAGEngine._build_prompt: the context, the PREVIOUS CONVERSATION block and
\* the question.
build_prompt(question, context, use_memory) ==
    [context |-> context,
     memory_block |-> IF use_memory /\ conversation_history # <<>>
                      THEN PySuffix(conversation_history, memoryWindow * 2)
                      ELSE <<>>,
     question |-> question]

\* _update_memory with the window counted one message too long.
mutant_update_memory(history, question, answer, sid) ==
    LET appended == history \o <<ChatMessage("user", question, sid),
                                 ChatMessage("assistant", answer, sid)>>
        max_messages == memoryWindow * 2
    IN  IF Len(appended) > max_messages
        THEN PySuffix(appended, max_messages + 1)
        ELSE appended

\* RAGEngine._update_memory
update_memory(history, question, answer, sid) ==
    LET appended == history \o <<ChatMessage("user", question, sid),
                                 ChatMessage("assistant", answer, sid)>>
        max_messages == memoryWindow * 2
    IN  IF Len(appended) > max_messages
        THEN PySuffix(appended, max_messages)
        ELSE appended

\* The memory written whatever use_memory is.
mutant_remember(use_memory, history, question, answer, sid) ==
    update_memory(history, question, answer, sid)

\* if use_memory: self._update_memory(question, answer)
remember(use_memory, history, question, answer, sid) ==
    IF use_memory
    THEN update_memory(history, question, answer, sid)
    ELSE history

\* RAGEngine._format_sources; the fixture texts are shorter than 200 characters,
\* so text_preview is the text, and round(score, 3) keeps a score of hundredths.
format_sources(retrieved_docs) ==
    [i \in 1..Len(retrieved_docs) |->
        [filename |-> retrieved_docs[i].metadata.source,
         text_preview |-> retrieved_docs[i].text,
         score |-> retrieved_docs[i].score]]

\* query with the memory written before the LLM is called: a failing call
\* leaves the question and an answer in the memory.
mutant_answer_from_memory_first(base, found, fault) ==
    LET history == conversation_history
        prompt == build_prompt(base.question, found.results, base.use_memory)
        answer == Strip(Complete(prompt))
        memory == remember(base.use_memory, history, base.question, answer,
                           base.sid)
        Failed(exc, called, mem, block, wrote) ==
            [call |-> [base EXCEPT !.exc = exc, !.answer = ErrorAnswer(exc),
                                   !.retrieved = found.results,
                                   !.memory_block = block,
                                   !.llm_calls = called],
             history |-> mem, index |-> found.index,
             entries |-> found.entries, wrote |-> wrote]
    IN  IF fault.fault = "context"
        THEN Failed(<<"context">>, 0, history, <<>>, FALSE)
        ELSE IF fault.fault = "llm"
        THEN Failed(<<"Connection error.">>, 1, memory, prompt.memory_block,
                    base.use_memory)
        ELSE IF fault.fault = "content"
        THEN Failed(<<"'NoneType' object has no attribute 'strip'">>, 1,
                    memory, prompt.memory_block, base.use_memory)
        ELSE IF fault.fault = "sources"
        THEN Failed(<<"sources">>, 1, memory, prompt.memory_block,
                    base.use_memory)
        ELSE [call |-> [base EXCEPT !.answer = answer,
                                    !.retrieved = found.results,
                                    !.sources = format_sources(found.results),
                                    !.memory_block = prompt.memory_block,
                                    !.llm_calls = 1],
              history |-> memory, index |-> found.index,
              entries |-> found.entries, wrote |-> base.use_memory]

\* The part of RAGEngine.query after a non-empty retrieval (steps 2 to 6), with
\* the except clause that turns any exception into an error answer.
answer_from(base, found, fault) ==
    LET history == conversation_history
        prompt == build_prompt(base.question, found.results, base.use_memory)
        answer == Strip(Complete(prompt))
        memory == remember(base.use_memory, history, base.question, answer,
                           base.sid)
        Failed(exc, called, mem, block, wrote) ==
            [call |-> [base EXCEPT !.exc = exc, !.answer = ErrorAnswer(exc),
                                   !.retrieved = found.results,
                                   !.memory_block = block,
                                   !.llm_calls = called],
             history |-> mem, index |-> found.index,
             entries |-> found.entries, wrote |-> wrote]
    IN  IF fault.fault = "context"
        THEN Failed(<<"context">>, 0, history, <<>>, FALSE)
        ELSE IF fault.fault = "llm"
        THEN Failed(<<"Connection error.">>, 1, history, prompt.memory_block,
                    FALSE)
        ELSE IF fault.fault = "content"
        THEN Failed(<<"'NoneType' object has no attribute 'strip'">>, 1,
                    history, prompt.memory_block, FALSE)
        ELSE IF fault.fault = "sources"
        THEN Failed(<<"sources">>, 1, memory, prompt.memory_block,
                    base.use_memory)
        ELSE [call |-> [base EXCEPT !.answer = answer,
                                    !.retrieved = found.results,
                                    !.sources = format_sources(found.results),
                                    !.memory_block = prompt.memory_block,
                                    !.llm_calls = 1],
              history |-> memory, index |-> found.index,
              entries |-> found.entries, wrote |-> base.use_memory]

\* query with the search outside its try block: a RetrievalError reaches the
\* caller.
mutant_query_search_unguarded(sid, question, use_memory, top_k, fault) ==
    LET base == [NoCall EXCEPT !.op = "query", !.sid = sid,
                               !.question = question,
                               !.use_memory = use_memory, !.top_k = top_k,
                               !.returned = TRUE, !.query = question]
    IN  LET found == search(question, <<DefaultTopK(top_k)>>, <<>>, fault)
        IN  IF found.raises
            THEN [call |-> [base EXCEPT !.exc = found.exc, !.raises = TRUE,
                                        !.returned = FALSE, !.query = <<>>],
                  history |-> conversation_history, index |-> found.index,
                  entries |-> found.entries, wrote |-> FALSE]
            ELSE IF found.results = <<>>
            THEN [call |-> [base EXCEPT !.answer = CannedAnswer],
                  history |-> conversation_history, index |-> found.index,
                  entries |-> found.entries, wrote |-> FALSE]
            ELSE answer_from(base, found, fault)

\* query without the branch for an empty retrieval.
mutant_query_no_empty_branch(sid, question, use_memory, top_k, fault) ==
    LET base == [NoCall EXCEPT !.op = "query", !.sid = sid,
                               !.question = question,
                               !.use_memory = use_memory, !.top_k = top_k,
                               !.returned = TRUE, !.query = question]
    IN  LET found == search(question, <<DefaultTopK(top_k)>>, <<>>, fault)
        IN  IF found.raises
            THEN [call |-> [base EXCEPT !.exc = found.exc,
                                        !.answer = ErrorAnswer(found.exc)],
                  history |-> conversation_history, index |-> found.index,
                  entries |-> found.entries, wrote |-> FALSE]
            ELSE answer_from(base, found, fault)

\* RAGEngine.query(question, use_memory, top_k), called by session sid on the
\* engine get_rag_engine() returns: the QueryResult (answer, sources, query),
\* the memory and the _index it leaves.
query(sid, question, use_memory, top_k, fault) ==
    LET base == [NoCall EXCEPT !.op = "query", !.sid = sid,
                               !.question = question,
                               !.use_memory = use_memory, !.top_k = top_k,
                               !.returned = TRUE, !.query = question]
    IN  \* retrieved_docs = self.vector_store.search(question, top_k=top_k)
        LET found == search(question, <<DefaultTopK(top_k)>>, <<>>, fault)
        IN  IF found.raises
            THEN [call |-> [base EXCEPT !.exc = found.exc,
                                        !.answer = ErrorAnswer(found.exc)],
                  history |-> conversation_history, index |-> found.index,
                  entries |-> found.entries, wrote |-> FALSE]
            ELSE IF found.results = <<>>
            THEN [call |-> [base EXCEPT !.answer = CannedAnswer],
                  history |-> conversation_history, index |-> found.index,
                  entries |-> found.entries, wrote |-> FALSE]
            ELSE answer_from(base, found, fault)

\* One call of RAGEngine.query by a session, through get_rag_engine(), which
\* creates the engine on first use (handle_user_input, ask_question).
Query(sid, question, use_memory, top_k, fault) ==
    \E out \in {query(sid, question, use_memory, top_k, fault)} :
        /\ use_memory => N < MaxQueries
        /\ use_memory => Len(conversation_history) < 2 * MaxQueries
        /\ rag_engine' = TRUE
        /\ conversation_history' = out.history
        /\ index' = out.index
        /\ collection' = out.entries
        /\ last' = out.call
        /\ N' = IF out.wrote /\ out.call.exc = <<>> THEN N + 1 ELSE N
        /\ clean' = (clean /\ (out.wrote => out.call.exc = <<>>))
        /\ UNCHANGED <<memoryWindow, collection_handle>>
        /\ UNCHANGED <<embedder_vars, thread_vars>>

\* RAGEngine.clear_memory, from the sidebar's Clear Conversation button.
ClearMemory(sid) ==
    /\ rag_engine' = TRUE
    /\ conversation_history' = <<>>
    /\ N' = 0
    /\ clean' = TRUE
    /\ last' = [NoCall EXCEPT !.op = "clear_memory", !.sid = sid,
                              !.returned = TRUE]
    /\ UNCHANGED <<memoryWindow, collection, collection_handle, index>>
    /\ UNCHANGED <<embedder_vars, thread_vars>>

-----------------------------------------------------------------------------
(* EmbeddingManager *)

\* [0.0] * settings.EMBEDDING_DIM
ZeroVector == [dim |-> EMBEDDING_DIM, zero |-> TRUE, of |-> <<>>]

\* The vector the FastEmbed model gives a text: of the model's dimension, and
\* a function of the text.
Embedding(text) == [dim |-> EMBEDDING_DIM, zero |-> FALSE, of |-> text]

\* not text or not text.strip()
Blank(text) == text = <<>> \/ Strip(text) = <<>>

\* The embed_model property read in one piece on the manager of the module
\* global: the model is constructed if _embed_model is None, and a failing
\* constructor raises EmbeddingError.
embed_model_property(can_load) ==
    IF embed_model[embedding_manager] # 0
    THEN [raises |-> FALSE, embed_model |-> embed_model, loads |-> loads]
    ELSE IF can_load
    THEN [raises |-> FALSE,
          embed_model |-> [embed_model EXCEPT ![embedding_manager] = loads + 1],
          loads |-> loads + 1]
    ELSE [raises |-> TRUE, embed_model |-> embed_model, loads |-> loads]

\* get_text_embedding that asks for the model before it looks at the text.
mutant_get_text_embedding(text, can_load) ==
    LET m == embed_model_property(can_load)
    IN  IF m.raises
        THEN [raises |-> TRUE, exc |-> <<"Failed to generate embedding: ">>,
              embeddings |-> <<>>,
              embed_model |-> m.embed_model, loads |-> m.loads]
        ELSE [raises |-> FALSE, exc |-> <<>>,
              embeddings |-> IF Blank(text) THEN <<ZeroVector>>
                             ELSE <<Embedding(text)>>,
              embed_model |-> m.embed_model, loads |-> m.loads]

\* EmbeddingManager.get_text_embedding(text): the vector it returns (as a
\* sequence of one) or the exception it raises, and the model state it leaves.
get_text_embedding(text, can_load) ==
    IF Blank(text)
    THEN [raises |-> FALSE, exc |-> <<>>, embeddings |-> <<ZeroVector>>,
          embed_model |-> embed_model, loads |-> loads]
    ELSE LET m == embed_model_property(can_load)
         IN  IF m.raises
             THEN [raises |-> TRUE,
                   exc |-> <<"Failed to generate embedding: ">>,
                   embeddings |-> <<>>,
                   embed_model |-> m.embed_model, loads |-> m.loads]
             ELSE [raises |-> FALSE, exc |-> <<>>,
                   embeddings |-> <<Embedding(text)>>,
                   embed_model |-> m.embed_model, loads |-> m.loads]

\* EmbeddingManager.get_query_embedding(query)
get_query_embedding(query_text, can_load) ==
    get_text_embedding(query_text, can_load)

\* EmbeddingManager.get_text_embeddings(texts): valid_texts are the texts
\* that are not blank; the batch of their embeddings is what is returned.
get_text_embeddings(texts, can_load) ==
    LET valid_texts == SelectSeq(texts, LAMBDA t : ~Blank(t))
        m == embed_model_property(can_load)
    IN  IF texts = <<>>
        THEN [raises |-> FALSE, exc |-> <<>>, embeddings |-> <<>>,
              embed_model |-> embed_model, loads |-> loads]
        ELSE IF valid_texts = <<>>
        THEN [raises |-> FALSE, exc |-> <<>>,
              embeddings |-> [i \in 1..Len(texts) |-> ZeroVector],
              embed_model |-> embed_model, loads |-> loads]
        ELSE IF m.raises
        THEN [raises |-> TRUE,
              exc |-> <<"Failed to generate batch embeddings: ">>,
              embeddings |-> <<>>,
              embed_model |-> m.embed_model, loads |-> m.loads]
        ELSE [raises |-> FALSE, exc |-> <<>>,
              embeddings |-> [i \in 1..Len(valid_texts)
                                |-> Embedding(valid_texts[i])],
              embed_model |-> m.embed_model, loads |-> m.loads]

\* What a call on the manager leaves behind.  The caller holds the manager of
\* the module global, and the constructor is made to fail only when it runs.
\* The calls are taken whole, while no thread is part-way through a load.
EmbeddingCall(op, texts, can_load, out) ==
    /\ embedding_manager # 0
    /\ \A t \in Threads : pc[t] = "idle"
    /\ ~can_load => embed_model[embedding_manager] = 0
    /\ embed_model' = out.embed_model
    /\ loads' = out.loads
    /\ last' = [NoCall EXCEPT !.op = op, !.texts = texts,
                              !.raises = out.raises, !.exc = out.exc,
                              !.returned = ~out.raises,
                              !.embeddings = out.embeddings,
                              !.fault = IF can_load THEN "none" ELSE "load"]
    /\ UNCHANGED <<embedding_manager, thread_vars>>
    /\ UNCHANGED <<store_vars, engine_vars>>

GetTextEmbedding(text, can_load) ==
    /\ embedding_manager # 0
    /\ EmbeddingCall("get_text_embedding", <<text>>, can_load,
                     get_text_embedding(text, can_load))

GetQueryEmbedding(query_text, can_load) ==
    /\ embedding_manager # 0
    /\ EmbeddingCall("get_query_embedding", <<query_text>>, can_load,
                     get_query_embedding(query_text, can_load))

GetTextEmbeddings(texts, can_load) ==
    /\ embedding_manager # 0
    /\ EmbeddingCall("get_text_embeddings", texts, can_load,
                     get_text_embeddings(texts, can_load))

\* A thread reaching for the model through get_embedding_manager().embed_model,
\* one shared read or write at a time.

\* get_embedding_manager: if _embedding_manager is None
GetEmbeddingManagerCheck(t) ==
    /\ pc[t] = "idle"
    /\ IF embedding_manager = 0
       THEN /\ pc' = [pc EXCEPT ![t] = "create_manager"]
            /\ local' = [local EXCEPT ![t] = NoLocal]
       ELSE /\ pc' = [pc EXCEPT ![t] = "check_model"]
            /\ local' = [local EXCEPT ![t] =
                            [NoLocal EXCEPT !.mgr = embedding_manager]]
    /\ last' = NoCall
    /\ UNCHANGED embedder_vars
    /\ UNCHANGED <<store_vars, engine_vars>>

\* _embedding_manager = EmbeddingManager(); return _embedding_manager
GetEmbeddingManagerCreate(t) ==
    /\ pc[t] = "create_manager"
    /\ embed_model' = Append(embed_model, 0)
    /\ embedding_manager' = Len(embed_model) + 1
    /\ pc' = [pc EXCEPT ![t] = "check_model"]
    /\ local' = [local EXCEPT ![t].mgr = Len(embed_model) + 1]
    /\ last' = NoCall
    /\ UNCHANGED loads
    /\ UNCHANGED <<store_vars, engine_vars>>

\* embed_model: if self._embed_model is None
EmbedModelCheck(t) ==
    /\ pc[t] = "check_model"
    /\ pc' = [pc EXCEPT ![t] = IF embed_model[local[t].mgr] = 0
                               THEN "construct" ELSE "return_model"]
    /\ last' = NoCall
    /\ UNCHANGED <<local, embedder_vars>>
    /\ UNCHANGED <<store_vars, engine_vars>>

\* FastEmbedEmbedding(model_name=..., cache_dir=...), which may fail
EmbedModelConstruct(t, can_load) ==
    /\ pc[t] = "construct"
    /\ IF can_load
       THEN /\ loads' = loads + 1
            /\ local' = [local EXCEPT ![t].new = loads + 1]
            /\ pc' = [pc EXCEPT ![t] = "assign_model"]
            /\ last' = NoCall
       ELSE /\ pc' = [pc EXCEPT ![t] = "idle"]
            /\ last' = [NoCall EXCEPT !.op = "embed_model", !.raises = TRUE,
                            !.exc = <<"Could not load embedding model: ">>,
                            !.fault = "load"]
            /\ UNCHANGED <<loads, local>>
    /\ UNCHANGED <<embedding_manager, embed_model>>
    /\ UNCHANGED <<store_vars, engine_vars>>

\* self._embed_model = <the new model>
EmbedModelAssign(t) ==
    /\ pc[t] = "assign_model"
    /\ embed_model' = [embed_model EXCEPT ![local[t].mgr] = local[t].new]
    /\ pc' = [pc EXCEPT ![t] = "return_model"]
    /\ last' = NoCall
    /\ UNCHANGED <<embedding_manager, loads, local>>
    /\ UNCHANGED <<store_vars, engine_vars>>

\* return self._embed_model
EmbedModelReturn(t) ==
    /\ pc[t] = "return_model"
    /\ pc' = [pc EXCEPT ![t] = "idle"]
    /\ local' = [local EXCEPT ![t].model = embed_model[local[t].mgr]]
    /\ last' = [NoCall EXCEPT !.op = "embed_model", !.returned = TRUE,
                              !.model = embed_model[local[t].mgr]]
    /\ UNCHANGED embedder_vars
    /\ UNCHANGED <<store_vars, engine_vars>>

-----------------------------------------------------------------------------
(* Session threads calling the one VectorStoreManager at the same time.     *)
(* No method of the manager takes a lock, so a call is a sequence of steps  *)
(* on the shared _collection and _index that other threads' steps may come  *)
(* between.  A step that returns no call leaves last = NoCall.              *)

\* The steps at which a thread is inside the writes of clear_all or
\* index_documents.
WritePcs == {"clear_all:create", "clear_all:reset",
             "index_documents:add", "index_documents:assign"}

\* Entries that index_documents calls in progress are still to add.
InFlight ==
    LET T1 == CHOOSE t \in Threads : TRUE
        T2 == CHOOSE t \in Threads : t # T1
        Adding(t) == IF pc[t] = "index_documents:add"
                     THEN Len(local[t].documents) ELSE 0
    IN  Adding(T1) + Adding(T2)

\* clear_all: self._chroma_client.delete_collection(name="documents")
ClearAllDelete(t) ==
    /\ pc[t] = "idle"
    /\ IF collection_handle = "deleted"
       THEN /\ last' = [NoCall EXCEPT !.op = "clear_all", !.fault = "none",
                            !.exc = <<"Collection documents does not exist.">>]
            /\ UNCHANGED <<store_vars, thread_vars>>
       ELSE /\ collection' = <<>>
            /\ collection_handle' = "deleted"
            /\ pc' = [pc EXCEPT ![t] = "clear_all:create"]
            /\ last' = NoCall
            /\ UNCHANGED <<index, local>>
    /\ UNCHANGED <<engine_vars, embedder_vars>>

\* clear_all: self._collection = get_or_create_collection(...); an _index
\* built before still wraps the collection that was deleted.
ClearAllCreate(t) ==
    /\ pc[t] = "clear_all:create"
    /\ collection_handle' = "live"
    /\ index' = IF index = "index" THEN "stale" ELSE index
    /\ pc' = [pc EXCEPT ![t] = "clear_all:reset"]
    /\ last' = NoCall
    /\ UNCHANGED <<collection, local>>
    /\ UNCHANGED <<engine_vars, embedder_vars>>

\* clear_all: self._index = None; return True
ClearAllReset(t) ==
    /\ pc[t] = "clear_all:reset"
    /\ index' = "None"
    /\ pc' = [pc EXCEPT ![t] = "idle"]
    /\ last' = [NoCall EXCEPT !.op = "clear_all", !.fault = "none",
                              !.returned = TRUE]
    /\ UNCHANGED <<collection, collection_handle, local>>
    /\ UNCHANGED <<engine_vars, embedder_vars>>

\* index_documents entering its try block with a non-empty batch.
IndexDocumentsBegin(t, documents) ==
    /\ pc[t] = "idle"
    /\ documents # <<>>
    /\ Len(collection) + InFlight + Len(documents) <= MaxEntries
    /\ pc' = [pc EXCEPT ![t] = "index_documents:add"]
    /\ local' = [local EXCEPT ![t] = [NoLocal EXCEPT !.documents = documents]]
    /\ last' = NoCall
    /\ UNCHANGED <<store_vars, engine_vars, embedder_vars>>

\* index_documents: VectorStoreIndex.from_documents embeds the batch and adds
\* it to the collection, or raises if the collection is gone.
IndexDocumentsAdd(t) ==
    /\ pc[t] = "index_documents:add"
    /\ IF collection_handle = "deleted"
       THEN /\ pc' = [pc EXCEPT ![t] = "idle"]
            /\ last' = [NoCall EXCEPT !.op = "index_documents",
                            !.documents = local[t].documents,
                            !.raises = TRUE, !.fault = "none",
                            !.exc = <<"Failed to index documents: ">>]
            /\ UNCHANGED collection
       ELSE /\ collection' = collection \o local[t].documents
            /\ pc' = [pc EXCEPT ![t] = "index_documents:assign"]
            /\ last' = NoCall
    /\ UNCHANGED <<collection_handle, index, local>>
    /\ UNCHANGED <<engine_vars, embedder_vars>>

\* index_documents: self._index = <the index built>; return True
IndexDocumentsAssign(t) ==
    /\ pc[t] = "index_documents:assign"
    /\ index' = "index"
    /\ pc' = [pc EXCEPT ![t] = "idle"]
    /\ last' = [NoCall EXCEPT !.op = "index_documents",
                              !.documents = local[t].documents,
                              !.returned = TRUE, !.fault = "none"]
    /\ UNCHANGED <<collection, collection_handle, local>>
    /\ UNCHANGED <<engine_vars, embedder_vars>>

\* search called by a thread that is between calls, whatever the others are
\* in the middle of.
ConcurrentSearch(t, query_text) ==
    /\ pc[t] = "idle"
    /\ Search(query_text, <<>>, <<>>, NoFault)

-----------------------------------------------------------------------------
(* Document comparison *)

\* query = f"content from document {doc_name}"; against the chunk texts it
\* scores as Similarity gives for any query other than q1.
ComparisonQuery(doc_name) == <<"content from document ", doc_name>>

\* doc_chunks = [r for r in results if r['metadata'].get('source', '') ==
\* doc_name], and the texts of doc_chunks[:5] that make the context.
DocChunks(results, doc_name) ==
    SelectSeq(results, LAMBDA r : r.metadata.source = doc_name)

DocContext(doc_chunks) ==
    [i \in 1..Min(COMPARE_CHUNKS, Len(doc_chunks)) |-> doc_chunks[i].text]

\* doc_contexts[doc_name] = context: a dict keeps the place of a key's first
\* assignment.
DictSet(dict, key, value) ==
    IF \E i \in DOMAIN dict : dict[i].key = key
    THEN [i \in DOMAIN dict |-> IF dict[i].key = key
                                THEN [key |-> key, value |-> value]
                                ELSE dict[i]]
    ELSE Append(dict, [key |-> key, value |-> value])

\* list(doc_contexts.keys())
Keys(dict) == [i \in DOMAIN dict |-> dict[i].key]

\* The loop over doc_names: one search per name, its results kept if any is
\* of that document.
RECURSIVE CollectContexts(_, _, _)
CollectContexts(doc_names, doc_contexts, fault) ==
    IF doc_names = <<>> THEN doc_contexts
    ELSE LET doc_name == Head(doc_names)
             out == search(ComparisonQuery(doc_name), <<COMPARE_TOP_K>>, <<>>,
                           fault)
             doc_chunks == DocChunks(out.results, doc_name)
         IN  CollectContexts(
                 Tail(doc_names),
                 IF doc_chunks # <<>>
                 THEN DictSet(doc_contexts, doc_name, DocContext(doc_chunks))
                 ELSE doc_contexts,
                 fault)

\* _build_comparison_prompt: the instruction of the aspect, "general" for an
\* aspect it does not know, and the documents with their contexts.
ComparisonPrompt(doc_contexts, aspect) ==
    [instruction |-> IF aspect \in {"general", "methodology", "findings",
                                    "structure", "tone", "timeline",
                                    "authors"}
                     THEN aspect ELSE "general",
     doc_contexts |-> doc_contexts]

\* The external LLM on a comparison prompt: message.content.
CompleteComparison(prompt) ==
    <<" ", "comparison of">> \o Keys(prompt.doc_contexts) \o <<"\n">>

\* compare_documents that asks for content of one document only.
mutant_compare_documents_one_suffices(doc_names, aspect, fault) ==
    LET base == [NoCall EXCEPT !.op = "compare_documents",
                               !.doc_names = doc_names, !.aspect = aspect,
                               !.fault = fault, !.returned = TRUE]
        search_fault == IF fault = "retrieve"
                        THEN [fault |-> "retrieve", rank |-> 0, kind |-> "num"]
                        ELSE NoFault
        first == search(ComparisonQuery(doc_names[1]), <<COMPARE_TOP_K>>,
                        <<>>, search_fault)
        doc_contexts == CollectContexts(doc_names, <<>>, search_fault)
    IN  IF Len(doc_names) < 2
        THEN [call |-> [base EXCEPT !.error =
                           <<"Please select at least 2 documents to compare">>],
              index |-> index, rag_engine |-> rag_engine]
        ELSE IF first.raises
        THEN [call |-> [base EXCEPT !.raises = TRUE, !.returned = FALSE,
                                    !.exc = first.exc],
              index |-> first.index, rag_engine |-> rag_engine]
        ELSE IF Len(doc_contexts) < 1
        THEN [call |-> [base EXCEPT
                           !.error = <<"Could not find enough content. Found: ">>
                                        \o Keys(doc_contexts),
                           !.found_docs = <<Keys(doc_contexts)>>],
              index |-> first.index, rag_engine |-> rag_engine]
        ELSE IF fault = "llm"
        THEN [call |-> [base EXCEPT
                           !.error = <<"Failed to generate comparison: ",
                                       "Connection error.">>,
                           !.llm_calls = 1],
              index |-> first.index, rag_engine |-> TRUE]
        ELSE [call |-> [base EXCEPT
                           !.comparison = <<Strip(CompleteComparison(
                               ComparisonPrompt(doc_contexts, aspect)))>>,
                           !.compared = <<Keys(doc_contexts)>>,
                           !.llm_calls = 1],
              index |-> first.index, rag_engine |-> TRUE]

\* compare_documents(doc_names, comparison_aspect): the dict it returns, with
\* an absent key as the empty sequence, or the RetrievalError of a search,
\* which it does not catch; and the _index and the engine global it leaves.
compare_documents(doc_names, aspect, fault) ==
    LET base == [NoCall EXCEPT !.op = "compare_documents",
                               !.doc_names = doc_names, !.aspect = aspect,
                               !.fault = fault, !.returned = TRUE]
        search_fault == IF fault = "retrieve"
                        THEN [fault |-> "retrieve", rank |-> 0, kind |-> "num"]
                        ELSE NoFault
        first == search(ComparisonQuery(doc_names[1]), <<COMPARE_TOP_K>>,
                        <<>>, search_fault)
        doc_contexts == CollectContexts(doc_names, <<>>, search_fault)
    IN  IF Len(doc_names) < 2
        THEN [call |-> [base EXCEPT !.error =
                           <<"Please select at least 2 documents to compare">>],
              index |-> index, rag_engine |-> rag_engine]
        ELSE IF first.raises
        THEN [call |-> [base EXCEPT !.raises = TRUE, !.returned = FALSE,
                                    !.exc = first.exc],
              index |-> first.index, rag_engine |-> rag_engine]
        ELSE IF Len(doc_contexts) < 2
        THEN [call |-> [base EXCEPT
                           !.error = <<"Could not find enough content. Found: ">>
                                        \o Keys(doc_contexts),
                           !.found_docs = <<Keys(doc_contexts)>>],
              index |-> first.index, rag_engine |-> rag_engine]
        ELSE IF fault = "llm"
        THEN [call |-> [base EXCEPT
                           !.error = <<"Failed to generate comparison: ",
                                       "Connection error.">>,
                           !.llm_calls = 1],
              index |-> first.index, rag_engine |-> TRUE]
        ELSE [call |-> [base EXCEPT
                           !.comparison = <<Strip(CompleteComparison(
                               ComparisonPrompt(doc_contexts, aspect)))>>,
                           !.compared = <<Keys(doc_contexts)>>,
                           !.llm_calls = 1],
              index |-> first.index, rag_engine |-> TRUE]

\* One call of compare_documents.  The retriever is made to fail only where
\* it is reached, and the LLM call likewise.
CompareDocuments(doc_names, aspect, fault) ==
    /\ fault = "retrieve" => Len(doc_names) >= 2 /\ collection # <<>>
    /\ \E out \in {compare_documents(doc_names, aspect, fault)} :
        /\ fault = "llm" => out.call.llm_calls = 1
        /\ index' = out.index
        /\ rag_engine' = out.rag_engine
        /\ last' = out.call
    /\ UNCHANGED <<collection, collection_handle>>
    /\ UNCHANGED <<memoryWindow, conversation_history, N, clean>>
    /\ UNCHANGED <<embedder_vars, thread_vars>>

-----------------------------------------------------------------------------
(* DocumentProcessor and the upload handler *)

\* Uploaded files by what their reader yields: the raw text of each page.
\* x.pdf is one the PDF reader cannot parse.
UploadedFiles ==
    { [name |-> "a.txt", file_type |-> "txt", readable |-> TRUE,
       pages |-> << <<"w1", " ", " ", "w2", "\n", "w3">> >>],
      [name |-> "b.pdf", file_type |-> "pdf", readable |-> TRUE,
       pages |-> << <<"w1", " ">>, <<"w2">> >>],
      [name |-> "c.txt", file_type |-> "txt", readable |-> TRUE,
       pages |-> << <<" ", "w4">> >>],
      [name |-> "x.pdf", file_type |-> "pdf", readable |-> FALSE,
       pages |-> <<>>] }

\* The selections of the file uploader: distinct files in upload order.
UploadLists ==
    {files \in SeqsUpTo(UploadedFiles, MaxUploads) :
        \A i, j \in DOMAIN files : files[i] = files[j] => i = j}

\* clean_text: the words of the text, single-spaced.
clean_text(text) == SelectSeq(text, LAMBDA t : t \notin Whitespace)

\* load_document: one Document a page for a PDF, one for a text file; every
\* failure leaves as DocumentProcessingError.
load_document(file) ==
    IF ~file.readable
    THEN [raises |-> TRUE, exc |-> <<"Failed to load document: ">>,
          documents |-> <<>>]
    ELSE [raises |-> FALSE, exc |-> <<>>,
          documents |->
            [p \in DOMAIN file.pages |->
                [text |-> clean_text(file.pages[p]),
                 metadata |->
                    [source |-> file.name, file_type |-> file.file_type,
                     page |-> IF file.file_type = "pdf" THEN <<p>> ELSE <<>>,
                     chunk_id |-> <<>>, chunk_size |-> <<>>]]]]

\* The splitter's pieces of one text from a position on: at most
\* MaxChunkTokens each, consecutive pieces sharing MaxOverlapTokens.
RECURSIVE SplitFrom(_, _)
SplitFrom(text, start) ==
    LET end == Min(start + MaxChunkTokens - 1, Len(text))
        step == IF MaxChunkTokens > MaxOverlapTokens
                THEN MaxChunkTokens - MaxOverlapTokens ELSE 1
    IN  IF start > Len(text) THEN <<>>
        ELSE <<SubSeq(text, start, end)>>
                \o (IF end = Len(text) THEN <<>>
                    ELSE SplitFrom(text, start + step))

\* SentenceSplitter.get_nodes_from_documents: the documents in order, each
\* split on its own, every node carrying its document's metadata.
RECURSIVE get_nodes_from_documents(_)
get_nodes_from_documents(documents) ==
    IF documents = <<>> THEN <<>>
    ELSE LET doc == Head(documents)
             pieces == SplitFrom(doc.text, 1)
         IN  [i \in DOMAIN pieces |->
                [text |-> pieces[i], metadata |-> doc.metadata]]
                \o get_nodes_from_documents(Tail(documents))

\* chunk_documents numbering every chunk alike.
mutant_chunk_documents(documents, fault) ==
    LET chunks == get_nodes_from_documents(documents)
    IN  [raises |-> FALSE, exc |-> <<>>,
         chunks |-> [i \in DOMAIN chunks |->
            [text |-> chunks[i].text,
             metadata |-> [chunks[i].metadata EXCEPT
                              !.chunk_id = <<0>>,
                              !.chunk_size = <<Len(chunks[i].text)>>]]]]

\* DocumentProcessor.chunk_documents: chunk_id is the position of the chunk
\* in the enumeration of all nodes of the call, from 0.
chunk_documents(documents, fault) ==
    IF fault
    THEN [raises |-> TRUE, exc |-> <<"Failed to chunk documents: ">>,
          chunks |-> <<>>]
    ELSE LET chunks == get_nodes_from_documents(documents)
         IN  [raises |-> FALSE, exc |-> <<>>,
              chunks |-> [i \in DOMAIN chunks |->
                 [text |-> chunks[i].text,
                  metadata |-> [chunks[i].metadata EXCEPT
                                   !.chunk_id = <<i - 1>>,
                                   !.chunk_size = <<Len(chunks[i].text)>>]]]]

\* DocumentProcessor.process_file: load, then chunk.
process_file(file, fault) ==
    LET loaded == load_document(file)
    IN  IF loaded.raises
        THEN [raises |-> TRUE, exc |-> loaded.exc, chunks |-> <<>>]
        ELSE chunk_documents(loaded.documents, fault)

\* list.extend putting the new chunks first.
mutant_extend(all_chunks, chunks) == chunks \o all_chunks

\* all_chunks.extend(chunks)
extend(all_chunks, chunks) == all_chunks \o chunks

\* The loop of process_uploaded_files over the files not yet processed: a
\* file whose processing raises is reported and the loop goes on.
\* chunk_fault names the file on which the splitter fails.
RECURSIVE ProcessFiles(_, _, _)
ProcessFiles(files, chunk_fault, acc) ==
    IF files = <<>> THEN acc
    ELSE LET file == Head(files)
             out == process_file(file, chunk_fault = file.name)
             event == <<"process_file", file.name>>
         IN  ProcessFiles(Tail(files), chunk_fault,
                IF out.raises
                THEN [acc EXCEPT
                        !.errors = Append(@, <<file.name>> \o out.exc),
                        !.trace = Append(@, event)]
                ELSE [acc EXCEPT
                        !.all_chunks = extend(@, out.chunks),
                        !.trace = Append(@, event)])

\* process_uploaded_files: the loop, then one index_documents call with all
\* chunks when there are any, whose failure is reported too.
process_uploaded_files(uploaded_files, chunk_fault, index_fault) ==
    LET done == ProcessFiles(uploaded_files, chunk_fault,
                    [all_chunks |-> <<>>, errors |-> <<>>, trace |-> <<>>])
        indexed == index_documents(done.all_chunks, index_fault)
    IN  IF done.all_chunks = <<>>
        THEN [all_chunks |-> <<>>, errors |-> done.errors,
              trace |-> done.trace, notice |-> "No valid documents",
              entries |-> collection, index |-> index]
        ELSE [all_chunks |-> done.all_chunks,
              errors |-> IF indexed.raises
                         THEN Append(done.errors,
                                     <<"Indexing error: ">> \o indexed.exc)
                         ELSE done.errors,
              trace |-> Append(done.trace,
                               <<"index_documents", done.all_chunks>>),
              notice |-> IF indexed.raises THEN ""
                         ELSE "Successfully processed",
              entries |-> indexed.entries, index |-> indexed.index]

\* One press of "Process Documents" on a selection of files.  A fault is
\* drawn only where the step it breaks is taken.
ProcessUploadedFiles(uploaded_files, chunk_fault, index_fault) ==
    /\ uploaded_files # <<>>
    /\ chunk_fault # "" =>
          \E i \in DOMAIN uploaded_files :
              /\ uploaded_files[i].name = chunk_fault
              /\ uploaded_files[i].readable
    /\ \E out \in {process_uploaded_files(uploaded_files, chunk_fault,
                                          index_fault)} :
        /\ index_fault => out.all_chunks # <<>>
        /\ Len(collection) + Len(out.all_chunks) <= MaxEntries
        /\ collection' = out.entries
        /\ index' = out.index
        /\ last' = [NoCall EXCEPT !.op = "process_uploaded_files",
                                  !.uploaded_files = uploaded_files,
                                  !.fault = IF index_fault THEN "add"
                                            ELSE chunk_fault,
                                  !.all_chunks = out.all_chunks,
                                  !.errors = out.errors,
                                  !.trace = out.trace,
                                  !.notice = out.notice]
    /\ UNCHANGED collection_handle
    /\ UNCHANGED engine_vars
    /\ UNCHANGED <<embedder_vars, thread_vars>>

\* The documents of several files, loaded one file after the other.
RECURSIVE LoadAll(_)
LoadAll(files) ==
    IF files = <<>> THEN <<>>
    ELSE load_document(Head(files)).documents \o LoadAll(Tail(files))

\* One call of DocumentProcessor.chunk_documents on loaded documents.
ChunkDocuments(files) ==
    /\ \E out \in {chunk_documents(LoadAll(files), FALSE)} :
        last' = [NoCall EXCEPT !.op = "chunk_documents",
                               !.uploaded_files = files,
                               !.all_chunks = out.chunks]
    /\ UNCHANGED store_vars
    /\ UNCHANGED engine_vars
    /\ UNCHANGED <<embedder_vars, thread_vars>>

-----------------------------------------------------------------------------
(* Specifications *)

Chunk(text) == CHOOSE c \in Chunks : c.text = text

\* No EmbeddingManager yet, and every thread between calls.
InitEmbedder ==
    /\ embedding_manager = 0
    /\ embed_model = <<>>
    /\ loads = 0
    /\ pc = [t \in Threads |-> "idle"]
    /\ local = [t \in Threads |-> NoLocal]

\* The collection a starting process finds on disk.
PersistedAtStart == {<<>>, <<Chunk("t2")>>, <<Chunk("t1"), Chunk("t3")>>}

\* A process starts with the engine not yet created and no index loaded.
Init ==
    /\ memoryWindow \in 0..MaxWindow
    /\ rag_engine = FALSE
    /\ conversation_history = <<>>
    /\ collection \in PersistedAtStart
    /\ collection_handle = "live"
    /\ index = "None"
    /\ N = 0
    /\ clean = TRUE
    /\ last = NoCall
    /\ InitEmbedder

Next ==
    \/ \E s \in Sessions, q \in Questions, m \in BOOLEAN, k \in QueryTopKs,
          fault \in QueryFaults : Query(s, q, m, k, fault)
    \/ \E s \in Sessions : ClearMemory(s)

Spec == Init /\ [][Next]_vars

InitStore ==
    /\ memoryWindow = MEMORY_WINDOW
    /\ rag_engine = FALSE
    /\ conversation_history = <<>>
    /\ collection = <<>>
    /\ collection_handle = "live"
    /\ index = "None"
    /\ N = 0
    /\ clean = TRUE
    /\ last = NoCall
    /\ InitEmbedder

NextStore ==
    \/ \E q \in Questions, k \in TopKs, f \in Filters :
            Search(q, k, f, NoFault)
    \/ \E q \in Questions, k \in TopKs,
          fault \in SearchFaults(MaxEntries) \ {NoFault} :
            Search(q, k, <<>>, fault)
    \/ \E docs \in Batches, fault \in BOOLEAN : IndexDocuments(docs, fault)
    \/ \E fault \in {"none", "delete", "create"} : ClearAll(fault)
    \/ GetDocumentCount
    \/ Restart

SpecStore == InitStore /\ [][NextStore]_vars

\* Sessions reaching for the embedding model at the same time, and calls on
\* the manager.
NextEmbed ==
    \/ \E t \in Threads : GetEmbeddingManagerCheck(t)
    \/ \E t \in Threads : GetEmbeddingManagerCreate(t)
    \/ \E t \in Threads : EmbedModelCheck(t)
    \/ \E t \in Threads, can_load \in BOOLEAN : EmbedModelConstruct(t, can_load)
    \/ \E t \in Threads : EmbedModelAssign(t)
    \/ \E t \in Threads : EmbedModelReturn(t)
    \/ \E text \in Texts, can_load \in BOOLEAN :
            GetTextEmbedding(text, can_load)
    \/ \E text \in Texts, can_load \in BOOLEAN :
            GetQueryEmbedding(text, can_load)
    \/ \E texts \in TextLists, can_load \in BOOLEAN :
            GetTextEmbeddings(texts, can_load)

SpecEmbed == InitStore /\ [][NextEmbed]_vars

\* Sessions indexing, clearing and searching the one store at the same time.
NextConcurrent ==
    \/ \E t \in Threads : ClearAllDelete(t)
    \/ \E t \in Threads : ClearAllCreate(t)
    \/ \E t \in Threads : ClearAllReset(t)
    \/ \E t \in Threads, c \in Chunks : IndexDocumentsBegin(t, <<c>>)
    \/ \E t \in Threads : IndexDocumentsAdd(t)
    \/ \E t \in Threads : IndexDocumentsAssign(t)
    \/ \E t \in Threads, q \in Questions : ConcurrentSearch(t, q)

SpecConcurrent == InitStore /\ [][NextConcurrent]_vars

\* Comparisons on a store that is filled, emptied and restarted.  Each chunk is uploaded at most once between two clears.
NextCompare ==
    \/ \E names \in DocNameLists, aspect \in Aspects :
            CompareDocuments(names, aspect, "none")
    \/ \E names \in DocNameLists, fault \in {"retrieve", "llm"} :
            CompareDocuments(names, "findings", fault)
    \/ \E c \in Chunks :
            /\ \A e \in DOMAIN collection : collection[e] # c
            /\ IndexDocuments(<<c>>, FALSE)
    \/ ClearAll("none")
    \/ Restart

SpecCompare == InitStore /\ [][NextCompare]_vars

\* Uploads into a store that is emptied and restarted.
NextUpload ==
    \/ \E files \in UploadLists, chunk_fault \in {"", "a.txt", "b.pdf"} :
            ProcessUploadedFiles(files, chunk_fault, FALSE)
    \/ \E files \in UploadLists : ProcessUploadedFiles(files, "", TRUE)
    \/ \E files \in UploadLists : ChunkDocuments(files)
    \/ ClearAll("none")
    \/ Restart

SpecUpload == InitStore /\ [][NextUpload]_vars

-----------------------------------------------------------------------------
(* Properties of the RAG engine, under Spec *)

Successful(call) ==
    call.op = "query" /\ call.exc = <<>> /\ call.llm_calls = 1

LastTwoAre(history, call) ==
    /\ history[Len(history) - 1].role = "user"
    /\ history[Len(history) - 1].content = call.question
    /\ history[Len(history)].role = "assistant"
    /\ history[Len(history)].content = call.answer

\* C1: after N successful use_memory queries on one engine that started with
\* an empty memory, for every configured memoryWindow >= 0, the memory holds
\* exactly min(N, memoryWindow) * 2 turns, the last two being the question and
\* the answer of the most recent query.
C1_MemoryWindowInvariant ==
    (Successful(last) /\ last.use_memory /\ clean) =>
        /\ Len(conversation_history) = Min(N, memoryWindow) * 2
        /\ Len(conversation_history) >= 2
              => LastTwoAre(conversation_history, last)

\* The last m items of a list, none when m = 0.
Newest(lst, m) ==
    IF m >= Len(lst) THEN lst ELSE SubSeq(lst, Len(lst) - m + 1, Len(lst))

\* C2: the memory is a bounded FIFO: between queries it never holds more than
\* 2 * memoryWindow turns, and a query that writes it leaves exactly the
\* newest 2 * memoryWindow turns of the old memory followed by the new pair, in
\* their order.
C2_BoundedFifo ==
    /\ [](Len(conversation_history) <= 2 * memoryWindow)
    /\ [][(Successful(last') /\ last'.use_memory) =>
            conversation_history' =
                Newest(conversation_history
                         \o <<ChatMessage("user", last'.question, last'.sid),
                              ChatMessage("assistant", last'.answer, last'.sid)>>,
                       2 * memoryWindow)]_vars

\* C3: the memory is isolated per session: the memory a session's query reads
\* into its prompt and leaves behind holds no turn of another session.
C3_SessionIsolation ==
    last.op = "query" =>
        /\ \A i \in DOMAIN last.memory_block :
              last.memory_block[i].sid = last.sid
        /\ \A i \in DOMAIN conversation_history :
              conversation_history[i].sid = last.sid

\* C4: query never raises: whatever fails inside it, it returns a QueryResult
\* whose answer carries the error text, whose sources are empty and whose
\* query is the question asked.
C4_QueryNeverRaises ==
    last.op = "query" =>
        /\ ~last.raises
        /\ last.returned
        /\ last.query = last.question
        /\ last.exc # <<>> =>
              /\ last.answer = <<"Error processing query: ">> \o last.exc
              /\ last.sources = <<>>

C4_Witness ==
    /\ last.op = "query"
    /\ last.exc = <<"Connection error.">>
    /\ last.llm_calls = 1
    /\ last.use_memory

\* C5: when search returns an empty sequence, query returns the canned answer
\* with empty sources as a normal result, for both values of use_memory.
C5_EmptyRetrievalIsCanned ==
    (last.op = "query" /\ last.exc = <<>> /\ last.retrieved = <<>>) =>
        /\ last.answer = CannedAnswer
        /\ last.sources = <<>>
        /\ last.query = last.question
        /\ last.returned /\ ~last.raises
        /\ last.llm_calls = 0

C5_Witness ==
    /\ last.op = "query"
    /\ last.exc = <<>>
    /\ last.retrieved = <<>>
    /\ last.use_memory
    /\ index = "index"
    /\ collection # <<>>

\* C6: a query with use_memory = false leaves conversation_history as it was,
\* in every outcome.
C6_NoMemoryQueryKeepsHistory ==
    [][(last'.op = "query" /\ ~last'.use_memory) =>
          conversation_history' = conversation_history]_vars

C6_Witness ==
    /\ Successful(last)
    /\ ~last.use_memory
    /\ conversation_history # <<>>

\* C7: query does not mutate the vector index: the persisted entries, and so
\* get_document_count(), are the same after the call as before it.
C7_QueryKeepsIndexEntries ==
    [][last'.op = "query" =>
          /\ collection' = collection
          /\ Len(collection') = Len(collection)
          /\ collection_handle' = collection_handle]_vars

C7_Witness ==
    /\ Successful(last)
    /\ index = "index"
    /\ Len(collection) = 2

-----------------------------------------------------------------------------
(* Properties of VectorStoreManager.search, under SpecStore *)

\* Python's a < b on floats: False whenever a is NaN.
FloatLt(a, v) == a.kind = "num" /\ a.val < v

ScoreLt(a, b) == a.kind = "num" /\ b.kind = "num" /\ a.val < b.val

Searched == last.op = "search" /\ ~last.raises

\* C8: no result search returns has a score below SIMILARITY_THRESHOLD.
C8_NoResultBelowThreshold ==
    Searched =>
        \A i \in DOMAIN last.results :
            ~FloatLt(last.results[i].score, SIMILARITY_THRESHOLD)

C8_Witness ==
    /\ Searched
    /\ Len(last.results) = 1
    /\ Len(collection) = 2
    /\ last.top_k = <<>>

\* C9: the sequence search returns is non-increasing in score, also when some
\* retrieved nodes carry no score.
C9_ResultsNonIncreasing ==
    Searched =>
        \A i \in DOMAIN last.results : \A j \in DOMAIN last.results :
            i < j => ~ScoreLt(last.results[i].score, last.results[j].score)

-----------------------------------------------------------------------------
(* Properties of the vector store's life cycle, under SpecStore *)

\* What a process whose index is built returns on the entries, fault-free.
Served(entries, q, top_k) ==
    FilterByThreshold(FormatResults(
        Retrieve(entries, q, DefaultTopK(top_k), NoFault)))

C12_ClearAllIdempotent ==
    (last.op = "clear_all" /\ last.fault = "none")
        => (last.returned /\ collection = <<>> /\ collection_handle = "live")

\* C13: get_document_count() returns the number of entries in the persisted
\* collection, whatever calls came before it.
C13_CountIsPersistedCount ==
    last.op = "get_document_count"
        => (~last.raises /\ last.count = <<Len(collection)>>)

\* C14: index_documents of an empty sequence returns False, does not raise,
\* and leaves the collection and _index as they were.
C14_EmptyBatchChangesNothing ==
    [][(last'.op = "index_documents" /\ last'.documents = <<>>)
            => (~last'.raises /\ ~last'.returned /\ UNCHANGED store_vars)]_vars

\* An empty batch was handed to a store that holds an index.
C14_Witness ==
    /\ last.op = "index_documents" /\ last.documents = <<>>
    /\ ~last.raises /\ ~last.returned
    /\ collection # <<>> /\ index = "index"

\* C15: the first search after a restart returns, for its query and top_k,
\* what a search with the index built returns on the same collection, and a
\* search in the process that built the index returns just that.
C15_RestartServesSameResults ==
    [][(/\ last'.op = "search" /\ last'.fault = "none"
        /\ \/ last.op = "restart"
           \/ index = "index" /\ collection_handle = "live")
            => (/\ ~last'.raises
                /\ last'.results
                     = Served(collection, last'.question, last'.top_k))]_vars

\* A search has lazily loaded the persisted index and returned results.
C15_Witness ==
    /\ last.op = "search" /\ last.loaded /\ last.fault = "none"
    /\ last.results # <<>>

\* C16: every call but clear_all keeps each persisted entry: the collection
\* before the call is a prefix of the collection after it.
C16_OnlyClearAllDestroys ==
    [][last'.op # "clear_all"
            => (/\ Len(collection) <= Len(collection')
                /\ SubSeq(collection', 1, Len(collection)) = collection)]_vars

\* A file was uploaded again under the same name: its earlier entry is kept
\* beside the new one.
C16_Witness ==
    /\ last.op = "index_documents" /\ last.returned
    /\ \E i, j \in DOMAIN collection : i < j /\ collection[i] = collection[j]


-----------------------------------------------------------------------------
(* Properties of the EmbeddingManager, under SpecEmbed *)

\* C17: the model constructor runs at most once however the callers
\* interleave, and all callers that obtained a model hold the same one.
C17_SingleFlightLoad ==
    /\ loads <= 1
    /\ \A t1, t2 \in Threads :
          (local[t1].model # 0 /\ local[t2].model # 0)
              => local[t1].model = local[t2].model

\* C19: get_text_embeddings returns as many vectors as it was given texts,
\* the i-th being the zero vector if texts[i] is blank and the embedding of
\* texts[i] otherwise.
C19_BatchKeepsLengthAndPositions ==
    (last.op = "get_text_embeddings" /\ ~last.raises)
        => /\ Len(last.embeddings) = Len(last.texts)
           /\ \A i \in DOMAIN last.texts :
                 last.embeddings[i] = IF Blank(last.texts[i]) THEN ZeroVector
                                      ELSE Embedding(last.texts[i])

\* C20: get_text_embedding and get_query_embedding of a blank string return
\* the zero vector of length EMBEDDING_DIM and do not raise, whether or not
\* the model is there or can be loaded.
C20_BlankTextIsZeroVector ==
    (/\ last.op \in {"get_text_embedding", "get_query_embedding"}
     /\ Blank(last.texts[1]))
        => /\ ~last.raises
           /\ last.embeddings = <<ZeroVector>>
           /\ last.embeddings[1].dim = EMBEDDING_DIM

\* A whitespace-only query was embedded while the model was not loaded and
\* could not be loaded.
C20_Witness ==
    /\ last.op = "get_query_embedding" /\ last.texts = << <<" ", "\n">> >>
    /\ last.fault = "load"
    /\ embed_model[embedding_manager] = 0
    /\ last.embeddings = <<ZeroVector>>


-----------------------------------------------------------------------------
(* Properties of concurrent callers of the store, under SpecConcurrent *)

\* The _index in hand wraps a collection that has been deleted.
HalfUpdated ==
    \/ index = "stale"
    \/ index = "index" /\ collection_handle = "deleted"

\* C18: no two threads are inside the writes of clear_all or index_documents
\* at once, and no search returns while another thread is inside such a
\* write with the index half-updated.
C18_IndexWritesExclusive ==
    /\ \A t1, t2 \in Threads :
          (pc[t1] \in WritePcs /\ pc[t2] \in WritePcs) => t1 = t2
    /\ last.op = "search"
          => ~(HalfUpdated /\ \E t \in Threads : pc[t] \in WritePcs)


-----------------------------------------------------------------------------
(* Further properties of search, under SpecStore *)

\* C24: a search whose retriever hands back a node with a NaN or non-numeric
\* score does not raise and returns that node among its results.
C24_UncomparableScoreIncluded ==
    (last.op = "search" /\ last.fault \in {"score_nan", "score_str"})
        => /\ ~last.raises
           /\ \E r \in DOMAIN last.results :
                 last.results[r].score.kind \in {"nan", "str"}


\* C25: a search called with a filters predicate returns only results whose
\* metadata satisfies it.
C25_FiltersRestrictResults ==
    (last.op = "search" /\ ~last.raises /\ last.filters # <<>>)
        => \A r \in DOMAIN last.results :
              last.results[r].metadata.source = last.filters[1].source

\* The chunks some search can return in this state: the results, over the
\* questions, of a search that takes the default top_k and meets no fault.
\* Every fixture chunk reaches the threshold for one of the questions.
SearchableChunks ==
    UNION { LET out == search(q, <<>>, <<>>, NoFault)
            IN  {[text |-> out.results[r].text,
                  metadata |-> out.results[r].metadata] :
                     r \in DOMAIN out.results} : q \in Questions }

PersistedChunks == {collection[i] : i \in DOMAIN collection}

\* C30: in every state reached by index_documents, clear_all, search and
\* restart, the chunks search can return are the entries persisted in the
\* collection.
C30_SearchableIsPersisted ==
    SearchableChunks = PersistedChunks

\* A later index_documents has replaced _index and a chunk of an earlier batch
\* is still there to be found.
C30_Witness ==
    /\ last.op = "index_documents" /\ last.returned
    /\ \E c \in PersistedChunks :
          /\ \A d \in DOMAIN last.documents : last.documents[d] # c
          /\ c \in SearchableChunks
    /\ SearchableChunks = PersistedChunks

-----------------------------------------------------------------------------
(* Further properties of the RAG engine, under Spec *)

\* The answer the LLM gives a question.
AnswerTo(question) ==
    Strip(Complete([context |-> <<>>, memory_block |-> <<>>,
                    question |-> question]))

\* C28: with memoryWindow >= 1, conversation_history has even length and is
\* made of pairs: a user turn, then the assistant turn that answers it.
C28_HistoryAlternates ==
    memoryWindow >= 1 =>
        /\ Len(conversation_history) % 2 = 0
        /\ \A i \in DOMAIN conversation_history :
              IF i % 2 = 1
              THEN conversation_history[i].role = "user"
              ELSE /\ conversation_history[i].role = "assistant"
                   /\ conversation_history[i].content
                        = AnswerTo(conversation_history[i - 1].content)
                   /\ conversation_history[i].sid
                        = conversation_history[i - 1].sid

\* The window has evicted a pair and the memory holds the pairs that remain.
C28_Witness ==
    /\ memoryWindow = 1
    /\ N >= 2
    /\ Len(conversation_history) = 2
    /\ conversation_history[1].role = "user"
    /\ conversation_history[2].role = "assistant"

\* The call ended in the branch for an empty retrieval.
EmptyRetrievalBranch(call) ==
    call.exc = <<>> /\ call.answer = CannedAnswer

\* The call ended in the error branch through a failure of search or of the
\* LLM call.
SearchOrLlmFailure(call) ==
    /\ call.exc # <<>>
    /\ \/ call.exc[1] = "Failed to search documents: "
       \/ call.exc = <<"Connection error.">>
       \/ call.exc = <<"'NoneType' object has no attribute 'strip'">>

\* C29: a query that ends in the empty-retrieval branch, or in the error
\* branch through a search or LLM failure, leaves conversation_history as it
\* was whatever use_memory is; a query calls the LLM at most once, and not at
\* all when the retrieval is empty.
C29_MemoryOnlyOnSuccess ==
    [][last'.op = "query" =>
          /\ (EmptyRetrievalBranch(last') \/ SearchOrLlmFailure(last'))
                => conversation_history' = conversation_history
          /\ last'.llm_calls <= 1
          /\ last'.retrieved = <<>> => last'.llm_calls = 0]_vars

\* A use_memory query failed at the LLM call with turns in the memory.
C29_Witness ==
    /\ last.op = "query" /\ last.use_memory
    /\ last.exc = <<"Connection error.">>
    /\ last.llm_calls = 1
    /\ conversation_history # <<>>


-----------------------------------------------------------------------------
(* Properties of document comparison, under SpecCompare *)

\* The searches of compare_documents return a chunk of the document.
ContentFound(doc_name) ==
    DocChunks(search(ComparisonQuery(doc_name), <<COMPARE_TOP_K>>, <<>>,
                     NoFault).results, doc_name) # <<>>

\* A list without its repetitions, each item at its first place.
RECURSIVE Distinct(_)
Distinct(seq) ==
    IF seq = <<>> THEN <<>>
    ELSE LET front == Distinct(SubSeq(seq, 1, Len(seq) - 1))
             x == seq[Len(seq)]
         IN  IF \E j \in DOMAIN front : front[j] = x THEN front
             ELSE Append(front, x)

\* The requested documents for which content is found, in request order.
FoundAmong(doc_names) ==
    Distinct(SelectSeq(doc_names, ContentFound))

\* C21: a compare_documents call whose searches return, and for which fewer
\* than 2 of the requested documents have content found, returns an error,
\* calls no LLM, and lists in found_docs exactly the requested documents with
\* content found; a request of fewer than 2 names returns an error without
\* searching, so without touching _index.
C21_TooFewFoundIsError ==
    [][(last'.op = "compare_documents" /\ ~last'.raises) =>
          /\ Len(last'.doc_names) < 2 =>
                /\ last'.error # <<>>
                /\ last'.llm_calls = 0
                /\ last'.comparison = <<>>
                /\ index' = index
          /\ (Len(last'.doc_names) >= 2
                /\ Len(FoundAmong(last'.doc_names)) < 2) =>
                /\ last'.error # <<>>
                /\ last'.llm_calls = 0
                /\ last'.comparison = <<>>
                /\ last'.found_docs = <<FoundAmong(last'.doc_names)>>]_vars

\* a.txt and b.txt were requested with only a.txt indexed.
C21_Witness ==
    /\ last.op = "compare_documents"
    /\ last.doc_names = <<"a.txt", "b.txt">>
    /\ \A e \in DOMAIN collection : collection[e].metadata.source = "a.txt"
    /\ last.error # <<>>
    /\ last.found_docs = << <<"a.txt">> >>
    /\ last.llm_calls = 0

\* The document has a chunk in the index.
HasChunk(doc_name) ==
    \E e \in DOMAIN collection : collection[e].metadata.source = doc_name

\* C22: a request of at least 2 distinct names, each with a chunk in the
\* index, whose LLM call succeeds, returns a non-empty comparison and the
\* requested names, in request order, as its documents.
C22_IndexedDocumentsAreCompared ==
    (/\ last.op = "compare_documents" /\ last.fault = "none"
     /\ Len(last.doc_names) >= 2
     /\ Distinct(last.doc_names) = last.doc_names
     /\ \A d \in DOMAIN last.doc_names : HasChunk(last.doc_names[d]))
        => /\ ~last.raises
           /\ last.error = <<>>
           /\ last.comparison # <<>> /\ last.comparison[1] # <<>>
           /\ last.compared = <<last.doc_names>>


-----------------------------------------------------------------------------
(* Properties of document processing and upload, under SpecUpload *)

\* C23: when chunking or indexing fails for a file of an uploaded batch, the
\* failure is reported and no chunk of the batch is written to the index.
C23_FailedBatchWritesNothing ==
    [][(last'.op = "process_uploaded_files" /\ last'.fault # "") =>
          /\ last'.errors # <<>>
          /\ collection' = collection]_vars

\* The file on which the splitter failed in the last upload, "" for none.
ChunkFaultOf(call) == IF call.fault = "add" THEN "" ELSE call.fault

\* The chunks of the files that process without failure, in upload order.
RECURSIVE SuccessfulChunks(_, _)
SuccessfulChunks(files, chunk_fault) ==
    IF files = <<>> THEN <<>>
    ELSE LET out == process_file(Head(files), chunk_fault = Head(files).name)
         IN  (IF out.raises THEN <<>> ELSE out.chunks)
                \o SuccessfulChunks(Tail(files), chunk_fault)

\* C26: an upload issues at most one index_documents call, as its last step
\* after every file was processed in upload order, carrying the chunks of
\* the successfully processed files in upload order; it issues none exactly
\* when no file produced chunks.
C26_OneIndexCallPerBatch ==
    last.op = "process_uploaded_files" =>
        LET files == last.uploaded_files
            calls == SelectSeq(last.trace,
                               LAMBDA e : e[1] = "index_documents")
            expected == SuccessfulChunks(files, ChunkFaultOf(last))
        IN  /\ Len(calls) <= 1
            /\ (calls = <<>>) <=> (expected = <<>>)
            /\ \A f \in DOMAIN files :
                  last.trace[f] = <<"process_file", files[f].name>>
            /\ Len(last.trace) = Len(files) + Len(calls)
            /\ calls # <<>> => calls[1][2] = expected

\* Two files were uploaded and both gave chunks.
C26_Witness ==
    /\ last.op = "process_uploaded_files"
    /\ Len(last.uploaded_files) = 2
    /\ last.errors = <<>>
    /\ \E i, j \in DOMAIN last.all_chunks :
          last.all_chunks[i].metadata.source
              # last.all_chunks[j].metadata.source
    /\ collection # <<>>

\* C27: among the chunks chunk_documents makes in one call, and those
\* process_file makes of one file, the chunks of one source document carry
\* chunk ids that strictly increase in document order, so are unique.
C27_ChunkIdsIncrease ==
    last.op \in {"chunk_documents", "process_uploaded_files"} =>
        \A i, j \in DOMAIN last.all_chunks :
            (/\ i < j
             /\ last.all_chunks[i].metadata.source
                    = last.all_chunks[j].metadata.source)
                => /\ last.all_chunks[i].metadata.chunk_id # <<>>
                   /\ last.all_chunks[j].metadata.chunk_id # <<>>
                   /\ last.all_chunks[i].metadata.chunk_id[1]
                        < last.all_chunks[j].metadata.chunk_id[1]

\* A two-page PDF was chunked after another file in one call.
C27_Witness ==
    /\ last.op = "chunk_documents"
    /\ Len(last.uploaded_files) = 2
    /\ last.uploaded_files[2].name = "b.pdf"
    /\ \E i, j \in DOMAIN last.all_chunks :
          /\ i < j
          /\ last.all_chunks[i].metadata.source = "b.pdf"
          /\ last.all_chunks[j].metadata.source = "b.pdf"
          /\ last.all_chunks[i].metadata.page
                # last.all_chunks[j].metadata.page

====
